---------------------------- MODULE Spec2Model ----------------------------
(***************************************************************************)
(* Model of the receive-side PacketExtractor (src/Receiver.py) running     *)
(* under the GNU Radio scheduler: a byte stream carrying stream tags is    *)
(* handed to general_work window by window; the block copies fixed-length  *)
(* payloads that start at "packet_start" tags and reports consumed and     *)
(* produced item counts back to the scheduler.                             *)
(***************************************************************************)
EXTENDS Integers, Sequences, FiniteSets, TLC

\* ---------------------------------------------------------------- bounds
StreamLen == 3        \* bytes of the input stream that are modelled
MaxPacketLen == 3     \* packet_len_bytes ranges over 1..MaxPacketLen
MaxOutCap == 2        \* len(out0) ranges over 0..MaxOutCap
MaxTags == 2          \* number of stream tags attached to the stream
MaxWritten == 4       \* CtorSpec stops invoking once this many items were produced

\* The block never inspects a byte value, so two values are enough to tell
\* any two stream positions apart in some stream.
Bytes == {0, 1}

start_key == "packet_start"
Keys == {start_key, "other_key"}
EXTRACT_LEN_BYTES == 256

Offsets == 0 .. (StreamLen - 1)
Tag == [offset : Offsets, key : Keys]

Min2(a, b) == IF a <= b THEN a ELSE b
Max2(a, b) == IF a >= b THEN a ELSE b
SetMin(S) == CHOOSE x \in S : \A y \in S : x <= y

\* Python list/array slice s[a:b] (0-based, end exclusive, indices clamped,
\* a negative index counted from the end).
PyIndex(n, i) == IF i < 0 THEN Max2(n + i, 0) ELSE Min2(i, n)
PySlice(s, a, b) == SubSeq(s, PyIndex(Len(s), a) + 1, PyIndex(Len(s), b))

VARIABLES
    stream,          \* the whole input byte stream (0-based offset i is stream[i+1])
    tags,            \* the stream tags attached to it by the upstream correlator
    self,            \* the PacketExtractor instance: packet_len, state, items_to_copy
    nitems_read,     \* scheduler: absolute read cursor of input 0
    nitems_written,  \* scheduler: absolute write cursor of output 0
    copied,          \* every byte general_work stored into out0, in order
    last,            \* the most recent invocation: its inputs, pre-state and result
    link,            \* the TX -> channel -> RX item chain around the differential codec
    batch            \* the batch transmission script and its transmitter subprocess

vars == <<stream, tags, self, nitems_read, nitems_written, copied, last, link, batch>>

\* The parts of the system that a specification does not exercise stay idle.
LinkIdle == [mode |-> "idle"]
BatchIdle == [pc |-> "idle"]

\* PacketExtractor.__init__
PacketExtractor(packet_len_bytes) ==
    [packet_len |-> packet_len_bytes, state |-> "SEARCHING", items_to_copy |-> 0]

\* gr.block.get_tags_in_window(which_input, start, end): the tags whose absolute
\* offset lies in [nitems_read + start, nitems_read + end), in ascending offset order.
RECURSIVE SortByOffset(_)
SortByOffset(T) ==
    IF T = {} THEN <<>>
    ELSE LET m == SetMin({t.offset : t \in T})
             t == CHOOSE u \in T : u.offset = m
         IN <<t>> \o SortByOffset(T \ {t})

get_tags_in_window_nofilter(all, nread, start, end) == SortByOffset(all)
get_tags_in_window(all, nread, start, end) ==
    SortByOffset({t \in all : nread + start <= t.offset /\ t.offset < nread + end})

\* The loop "for tag in tags: if tag.key == self.start_key: ... break":
\* index of the first tag with the start key, 0 when there is none.
first_start_anykey(tgs) == IF Len(tgs) > 0 THEN 1 ELSE 0
first_start_last(tgs) ==
    LET hits == {i \in 1..Len(tgs) : tgs[i].key = start_key}
    IN IF hits = {} THEN 0 ELSE CHOOSE i \in hits : \A j \in hits : j <= i
first_start(tgs) ==
    LET hits == {i \in 1..Len(tgs) : tgs[i].key = start_key}
    IN IF hits = {} THEN 0 ELSE SetMin(hits)

\* tag_pos = int(tag.offset - self.nitems_read(0))
tag_pos_absolute(tag, nread) == tag.offset
tag_pos(tag, nread) == tag.offset - nread

\* The SEARCHING branch up to the break: state, counter and read cursor after it.
search_always(obj, tgs, nread) ==
    LET hit == first_start(tgs)
    IN IF hit # 0
       THEN [state |-> "COPYING", items_to_copy |-> obj.packet_len,
             read_ptr |-> tag_pos(tgs[hit], nread), tag |-> tgs[hit].offset]
       ELSE [state |-> obj.state, items_to_copy |-> obj.items_to_copy,
             read_ptr |-> 0, tag |-> -1]
search(obj, tgs, nread) ==
    LET hit == first_start(tgs)
    IN IF obj.state = "SEARCHING" /\ hit # 0
       THEN [state |-> "COPYING", items_to_copy |-> obj.packet_len,
             read_ptr |-> tag_pos(tgs[hit], nread), tag |-> tgs[hit].offset]
       ELSE [state |-> obj.state, items_to_copy |-> obj.items_to_copy,
             read_ptr |-> 0, tag |-> -1]

\* items_to_process = min(items_available, self.items_to_copy, len(out0) - write_ptr)
items_to_process_nocap(items_available, items_to_copy, out_free) ==
    Min2(items_available, items_to_copy)
items_to_process_whole(items_available, items_to_copy, out_free) ==
    IF items_available >= items_to_copy /\ out_free >= items_to_copy
    THEN items_to_copy ELSE 0
items_to_process(items_available, items_to_copy, out_free) ==
    Min2(items_available, Min2(items_to_copy, out_free))

\* The early exit of the SEARCHING branch: consume(0, len(in0)); return 0
no_packet_keep(obj, in0) ==
    [state |-> obj.state, items_to_copy |-> obj.items_to_copy,
     consume |-> 0, produce |-> 0, ret |-> 0,
     out0 |-> <<>>, read_ptr |-> 0, write_ptr |-> 0, tag |-> -1]
no_packet(obj, in0) ==
    [state |-> obj.state, items_to_copy |-> obj.items_to_copy,
     consume |-> Len(in0), produce |-> 0, ret |-> 0,
     out0 |-> <<>>, read_ptr |-> 0, write_ptr |-> 0, tag |-> -1]

\* End of the COPYING branch: if self.items_to_copy == 0: self.state = 'SEARCHING'
next_state_stay(state, items_to_copy) == state
next_state(state, items_to_copy) == IF items_to_copy = 0 THEN "SEARCHING" ELSE state

\* The one element of a singleton set; used to bind an intermediate value of
\* general_work (tags, cursor, items_to_process) once, as a local variable.
The(S) == CHOOSE x \in S : TRUE

\* PacketExtractor.general_work on the window in0 (whose first byte has absolute
\* offset nread), an output buffer of out_len items and the stream tags all_tags.
\* The result carries the new object state, the arguments of consume() and
\* produce(), the return value and the bytes stored into out0[0:write_ptr].
general_work(obj, in0, out_len, all_tags, nread) ==
    The({ The({ IF s.state = "SEARCHING"
                THEN no_packet(obj, in0)
                ELSE The({ LET write_ptr == 0 + n
                               read_ptr == s.read_ptr + n
                               items_to_copy == s.items_to_copy - n
                           IN [state |-> next_state(s.state, items_to_copy),
                               items_to_copy |-> items_to_copy,
                               consume |-> read_ptr, produce |-> write_ptr,
                               ret |-> out_len,
                               out0 |-> PySlice(in0, s.read_ptr, s.read_ptr + n),
                               read_ptr |-> read_ptr, write_ptr |-> write_ptr,
                               tag |-> s.tag]
                           : n \in {Max2(0, items_to_process(Len(in0) - s.read_ptr,
                                                             s.items_to_copy,
                                                             out_len - 0))} })
                : s \in {search(obj, tgs, nread)} })
          : tgs \in {get_tags_in_window(all_tags, nread, 0, Len(in0))} })

\* Scheduler bookkeeping after general_work returns: produce() has already moved
\* the write cursor, and a non-negative return value is produced on top of it.
output_advance(r) == r.produce + (IF r.ret >= 0 THEN r.ret ELSE 0)

NoCall == [called |-> FALSE]

Init ==
    /\ stream \in [1..StreamLen -> Bytes]
    /\ tags \in {T \in SUBSET Tag : Cardinality(T) <= MaxTags}
    /\ \E p \in 1..MaxPacketLen : self = PacketExtractor(p)
    /\ nitems_read = 0
    /\ nitems_written = 0
    /\ copied = <<>>
    /\ last = NoCall
    /\ link = LinkIdle
    /\ batch = BatchIdle

\* One scheduler iteration: a window of L available input bytes and an output
\* buffer with room for cap items are handed to general_work; the cursors then
\* advance by what the block reported.  The scheduler only runs a block that has
\* input available (the default forecast asks for at least one item), so L >= 1.
Call(L, cap) ==
    \E in0 \in {SubSeq(stream, nitems_read + 1, nitems_read + L)} :
    \E r \in {general_work(self, in0, cap, tags, nitems_read)} :
       /\ self' = [self EXCEPT !.state = r.state, !.items_to_copy = r.items_to_copy]
       /\ nitems_read' = nitems_read + r.consume
       /\ nitems_written' = nitems_written + output_advance(r)
       /\ copied' = copied \o r.out0
       /\ last' = [called |-> TRUE, pre |-> self, nread |-> nitems_read,
                   written |-> nitems_written,
                   in0 |-> in0, out_len |-> cap, res |-> r]
       /\ UNCHANGED <<stream, tags, link, batch>>

Work ==
    /\ nitems_read >= 0
    /\ nitems_read < StreamLen
    /\ \E L \in 1..(StreamLen - nitems_read), cap \in 0..MaxOutCap : Call(L, cap)

Next == Work

Spec == Init /\ [][Next]_vars

\* The scheduler never runs the block without room in the output buffer
\* (noutput_items >= 1), and keeps running it while input is available.
WorkWithRoom ==
    /\ nitems_read >= 0
    /\ nitems_read < StreamLen
    /\ \E L \in 1..(StreamLen - nitems_read), cap \in 1..MaxOutCap : Call(L, cap)

\* Progress does not depend on the byte values, so one stream stands for all.
FairInit == Init /\ stream = [i \in 1..StreamLen |-> 0]

FairSpec == FairInit /\ [][Next]_vars /\ WF_vars(WorkWithRoom)

\* ------------------------------------------------------------------------
\* Vocabulary of the properties

\* Absolute offsets of the packet_start tags of the stream.
StartOffsets == {t.offset : t \in {u \in tags : u.key = start_key}}

\* The last invocation: window length, window range, start tags inside it.
LastLen == Len(last.in0)
LastWindowStarts ==
    {o \in StartOffsets : last.nread <= o /\ o < last.nread + LastLen}
LastConsumed == nitems_read - last.nread
LastProduced == nitems_written - last.written
LastCopied == Len(last.res.out0)
\* The last invocation reached the copy section (it began in COPYING or found a tag).
LastReachedCopy == last.pre.state = "COPYING" \/ last.res.tag # -1

\* ------------------------------------------------------------------------
\* C1: the bytes copied to the output so far are exactly the concatenation of
\* the slices stream[t_i : t_i + packet_len], t_1 the smallest packet_start
\* offset and t_(i+1) the smallest packet_start offset >= t_i + packet_len,
\* the last slice cut at the bytes consumed so far; nothing else is copied.
RECURSIVE ExpectedFrom(_, _)
ExpectedFrom(pos, limit) ==
    LET cands == {t \in StartOffsets : t >= pos /\ t < limit}
    IN IF cands = {} THEN <<>>
       ELSE LET t == SetMin(cands)
            IN PySlice(stream, t, Min2(t + self.packet_len, limit))
                 \o ExpectedFrom(t + self.packet_len, limit)

C1_CopiedIsAlignedSlices == copied = ExpectedFrom(0, nitems_read)

\* Two payloads were cut out of a fully consumed stream and some byte was skipped.
C1_Witness ==
    /\ nitems_read = StreamLen
    /\ \E a, b \in StartOffsets : a + self.packet_len <= b
    /\ Len(copied) >= 2
    /\ Len(copied) < StreamLen

\* ------------------------------------------------------------------------
\* C2: once the stream is consumed, the copied bytes are those that delivering
\* the whole (remaining) stream as one window with ample output room yields,
\* whatever windows and output capacities were actually used.
RECURSIVE one_window_run(_, _, _, _)
one_window_run(obj, nread, acc, fuel) ==
    IF nread >= StreamLen \/ nread < 0 \/ fuel = 0 THEN acc
    ELSE LET in0 == SubSeq(stream, nread + 1, StreamLen)
             r == general_work(obj, in0, Len(in0), tags, nread)
         IN one_window_run(
                [obj EXCEPT !.state = r.state, !.items_to_copy = r.items_to_copy],
                nread + r.consume, acc \o r.out0, fuel - 1)

C2_WindowingIndependent ==
    nitems_read = StreamLen =>
        copied = one_window_run(PacketExtractor(self.packet_len), 0, <<>>, StreamLen + 1)

\* A payload whose bytes arrived in different windows, in a finished stream.
C2_Witness ==
    /\ nitems_read = StreamLen
    /\ last.called
    /\ last.pre.state = "COPYING"
    /\ last.pre.items_to_copy < self.packet_len
    /\ LastCopied >= 1
    /\ LastLen < StreamLen

\* ------------------------------------------------------------------------
\* C3: an invocation that begins in COPYING ignores every tag: its whole result
\* is the one an empty tag set gives, and it returns to SEARCHING only with
\* items_to_copy = 0.
C3_TagsIgnoredWhileCopying ==
    (last.called /\ last.pre.state = "COPYING") =>
        /\ last.res = general_work(last.pre, last.in0, last.out_len, {}, last.nread)
        /\ (self.state = "SEARCHING" => self.items_to_copy = 0)

\* A packet_start tag was delivered in a window that began in COPYING.
C3_Witness ==
    /\ last.called
    /\ last.pre.state = "COPYING"
    /\ LastWindowStarts # {}
    /\ LastCopied >= 1

\* ------------------------------------------------------------------------
\* C4: every invocation reports a consumed count equal to its final read cursor
\* and a produced count equal to the number of bytes it copied, so the output
\* cursor advances by exactly the copied amount.
C4_ReportsWhatItCopied ==
    last.called =>
        /\ LastProduced = LastCopied
        /\ (LastReachedCopy => LastConsumed = last.res.read_ptr)

\* ------------------------------------------------------------------------
\* C5 (as stated): SEARCHING, the packet_start tag found sits on the last byte
\* of the window: the invocation ends in COPYING with items_to_copy = packet_len
\* and nothing copied.
LastTagOnLastByte ==
    /\ last.called
    /\ last.pre.state = "SEARCHING"
    /\ last.res.tag = last.nread + LastLen - 1

C5_BoundaryCopiesNothing ==
    LastTagOnLastByte =>
        /\ self.state = "COPYING"
        /\ self.items_to_copy = self.packet_len
        /\ LastCopied = 0

\* C5 (amended): in that case the tagged last byte itself is copied whenever the
\* output buffer has room for an item (nothing only with no room);
\* items_to_copy ends at packet_len minus the bytes copied, and the state is
\* COPYING unless that is 0.
C5_BoundaryCopiesLastByte ==
    LastTagOnLastByte =>
        LET n == Min2(1, last.out_len)
        IN /\ last.res.out0 = PySlice(last.in0, LastLen - 1, LastLen - 1 + n)
           /\ LastCopied = n
           /\ LastConsumed = LastLen - 1 + n
           /\ self.items_to_copy = self.packet_len - n
           /\ self.state = IF self.items_to_copy = 0 THEN "SEARCHING" ELSE "COPYING"

\* The tag sat on the last byte of a longer window and the byte was copied.
C5_Witness ==
    /\ LastTagOnLastByte
    /\ LastLen >= 2
    /\ last.out_len >= 1
    /\ LastCopied = 1
    /\ self.state = "COPYING"

\* ------------------------------------------------------------------------
\* C6: no byte of a payload is handed downstream before the payload is complete:
\* an invocation that leaves a payload unfinished publishes nothing, and the
\* number of items handed downstream is always a multiple of packet_len.
C6_OnlyWholePayloadsEmitted ==
    /\ nitems_written % self.packet_len = 0
    /\ (last.called /\ self.state = "COPYING" => LastProduced = 0)

\* ------------------------------------------------------------------------
\* C7: when the output buffer is smaller than what could be copied, exactly
\* out_len bytes are copied, the block stays in COPYING with items_to_copy
\* reduced by that amount and the read cursor stops right after the copied
\* bytes; the part of the current payload copied so far is always the
\* contiguous run of stream bytes that ends at the read cursor, and outside a
\* payload only whole payloads have been copied.
LastCopyStart == IF last.pre.state = "COPYING" THEN last.nread ELSE last.res.tag
LastToCopy ==
    IF last.pre.state = "COPYING" THEN last.pre.items_to_copy ELSE self.packet_len
LastAvailable == last.nread + LastLen - LastCopyStart

C7_OutputExhaustionIsFlowControl ==
    /\ (/\ last.called
        /\ LastReachedCopy
        /\ last.out_len < Min2(LastAvailable, LastToCopy))
       => /\ LastCopied = last.out_len
          /\ last.res.out0 = PySlice(stream, LastCopyStart, LastCopyStart + last.out_len)
          /\ self.state = "COPYING"
          /\ self.items_to_copy = LastToCopy - last.out_len
          /\ nitems_read = LastCopyStart + last.out_len
    /\ self.state = "COPYING" =>
          LET done == self.packet_len - self.items_to_copy
          IN /\ done >= 0
             /\ done <= Len(copied)
             /\ SubSeq(copied, Len(copied) - done + 1, Len(copied))
                  = PySlice(stream, nitems_read - done, nitems_read)
    /\ self.state = "SEARCHING" => Len(copied) % self.packet_len = 0

\* A payload copied in pieces because the output buffer was too small twice.
C7_Witness ==
    /\ last.called
    /\ last.pre.state = "COPYING"
    /\ last.pre.items_to_copy < self.packet_len
    /\ last.out_len >= 1
    /\ last.out_len < Min2(LastAvailable, LastToCopy)
    /\ self.state = "COPYING"

\* ------------------------------------------------------------------------
\* C8: SEARCHING, one packet_start tag in the window at local offset p with
\* L - p < packet_len, output room for L - p bytes: all L bytes are consumed,
\* exactly in0[p:L] is copied, and the block ends in COPYING with
\* items_to_copy = packet_len - (L - p).  With L = 300, p = 50, packet_len = 256:
\* consumed 300, 250 copied, 6 to go; 5 more bytes leave 1 to go, 6 complete it.
ScenarioA_first ==
    general_work(PacketExtractor(EXTRACT_LEN_BYTES), [i \in 1..300 |-> 0], 300,
                 {[offset |-> 50, key |-> start_key]}, 0)
ScenarioA_obj ==
    [packet_len |-> EXTRACT_LEN_BYTES, state |-> ScenarioA_first.state,
     items_to_copy |-> ScenarioA_first.items_to_copy]
ScenarioA_five ==
    general_work(ScenarioA_obj, [i \in 1..5 |-> 0], 300,
                 {[offset |-> 50, key |-> start_key]}, 300)
ScenarioA_ten ==
    general_work(ScenarioA_obj, [i \in 1..10 |-> 0], 300,
                 {[offset |-> 50, key |-> start_key]}, 300)
ScenarioA ==
    /\ ScenarioA_first.consume = 300
    /\ Len(ScenarioA_first.out0) = 250
    /\ ScenarioA_first.state = "COPYING"
    /\ ScenarioA_first.items_to_copy = 6
    /\ ScenarioA_five.state = "COPYING" /\ ScenarioA_five.items_to_copy = 1
    /\ ScenarioA_ten.state = "SEARCHING" /\ ScenarioA_ten.items_to_copy = 0
    /\ ScenarioA_ten.consume = 6 /\ Len(ScenarioA_ten.out0) = 6

LastShortTail ==
    /\ last.called
    /\ last.pre.state = "SEARCHING"
    /\ Cardinality(LastWindowStarts) = 1
    /\ \A o \in LastWindowStarts :
         /\ last.nread + LastLen - o < self.packet_len
         /\ last.out_len >= last.nread + LastLen - o

C8_PayloadSplitAtWindowEnd ==
    /\ ScenarioA
    /\ LastShortTail =>
         \A o \in LastWindowStarts :
            LET p == o - last.nread
            IN /\ LastConsumed = LastLen
               /\ last.res.out0 = PySlice(last.in0, p, LastLen)
               /\ LastCopied = LastLen - p
               /\ self.state = "COPYING"
               /\ self.items_to_copy = self.packet_len - (LastLen - p)

\* A tag inside a window, with the window's last two bytes copied behind it.
C8_Witness ==
    /\ LastShortTail
    /\ \E o \in LastWindowStarts : o > last.nread
    /\ LastCopied = 2
    /\ self.items_to_copy = 1

\* ------------------------------------------------------------------------
\* C9: SEARCHING and no packet_start tag in the window: the whole window is
\* consumed, nothing is produced or copied, state and items_to_copy stay as
\* they were (for 1000 bytes: consumed 1000, produced 0, still SEARCHING).
ScenarioB_res ==
    general_work(PacketExtractor(EXTRACT_LEN_BYTES), [i \in 1..1000 |-> 0], 1000, {}, 0)
ScenarioB ==
    /\ ScenarioB_res.consume = 1000
    /\ output_advance(ScenarioB_res) = 0
    /\ ScenarioB_res.state = "SEARCHING"

C9_NoEventWindowSkipped ==
    /\ ScenarioB
    /\ (last.called /\ last.pre.state = "SEARCHING" /\ LastWindowStarts = {}) =>
         /\ LastConsumed = LastLen
         /\ LastProduced = 0
         /\ LastCopied = 0
         /\ self.state = "SEARCHING"
         /\ self.items_to_copy = last.pre.items_to_copy

\* A window with only a tag of another key, offered with output room, is skipped.
C9_Witness ==
    /\ last.called
    /\ last.pre.state = "SEARCHING"
    /\ LastWindowStarts = {}
    /\ \E t \in tags : t.key # start_key /\ last.nread <= t.offset
                        /\ t.offset < last.nread + LastLen
    /\ LastLen >= 2
    /\ last.out_len >= 1
    /\ nitems_read = last.nread + LastLen

\* ------------------------------------------------------------------------
\* C10: a packet_start tag outside the current window never starts a payload:
\* the tag a payload starts at lies inside the window, and the read cursor and
\* the consumed count stay within [0, len(in0)].
C10_OutOfWindowTagsDiscarded ==
    last.called =>
        /\ (last.res.tag # -1 =>
               /\ last.nread <= last.res.tag
               /\ last.res.tag < last.nread + LastLen)
        /\ 0 <= last.res.read_ptr /\ last.res.read_ptr <= LastLen
        /\ 0 <= last.res.consume /\ last.res.consume <= LastLen
        /\ nitems_read <= StreamLen

\* SEARCHING with a stale packet_start tag behind the window and nothing started.
C10_Witness ==
    /\ last.called
    /\ last.pre.state = "SEARCHING"
    /\ \E o \in StartOffsets : o < last.nread
    /\ LastWindowStarts = {}
    /\ last.res.tag = -1
    /\ self.state = "SEARCHING"

\* ------------------------------------------------------------------------
\* C18: SEARCHING with packet_start tags in the window: the payload starts at
\* the one with the smallest offset; the read cursor is set to that offset
\* minus the window's absolute start, items_to_copy to packet_len; tags of
\* another key and later packet_start tags do not matter, and the bytes in
\* front of the chosen offset are consumed without being copied.
LastWindowTags ==
    {t \in tags : last.nread <= t.offset /\ t.offset < last.nread + LastLen}

C18_FirstMatchingTagStartsPayload ==
    (last.called /\ last.pre.state = "SEARCHING" /\ LastWindowStarts # {}) =>
        LET o == SetMin(LastWindowStarts)
            p == o - last.nread
        IN /\ last.res.tag = o
           /\ last.res.read_ptr - LastCopied = p
           /\ self.items_to_copy + LastCopied = self.packet_len
           /\ last.res.out0 = PySlice(last.in0, p, p + LastCopied)
           /\ LastConsumed = p + LastCopied
           /\ last.res = general_work(last.pre, last.in0, last.out_len,
                                      {[offset |-> o, key |-> start_key]}, last.nread)

\* Two tags in the window, bytes in front of the chosen one, and a byte copied.
C18_Witness ==
    /\ last.called
    /\ last.pre.state = "SEARCHING"
    /\ Cardinality(LastWindowTags) = 2
    /\ LastWindowStarts # {}
    /\ last.res.tag > last.nread
    /\ \E t \in LastWindowTags : t.offset # last.res.tag
    /\ LastCopied >= 1

\* ------------------------------------------------------------------------
\* C19: between invocations state = COPYING exactly when
\* 0 < items_to_copy <= packet_len, SEARCHING means items_to_copy = 0, and
\* items_to_copy grows only in an invocation that began in SEARCHING and found a
\* tag (the reset to packet_len).
C19_StateCounterInvariant ==
    /\ self.state \in {"SEARCHING", "COPYING"}
    /\ self.state = "COPYING" <=>
          (0 < self.items_to_copy /\ self.items_to_copy <= self.packet_len)
    /\ self.state = "SEARCHING" => self.items_to_copy = 0
    /\ self.items_to_copy >= 0
    /\ (last.called /\ self.items_to_copy > last.pre.items_to_copy) =>
          /\ last.pre.state = "SEARCHING"
          /\ last.res.tag # -1
          /\ last.pre.items_to_copy = 0
    /\ (last.called /\ last.pre.state = "COPYING") =>
          self.items_to_copy = last.pre.items_to_copy - LastCopied

\* A payload was finished by an invocation that began in COPYING.
C19_Witness ==
    /\ last.called
    /\ last.pre.state = "COPYING"
    /\ last.pre.items_to_copy >= 2
    /\ self.state = "SEARCHING"
    /\ self.items_to_copy = 0

\* ------------------------------------------------------------------------
\* C20: an invocation with a non-empty window and room for at least one output
\* item consumes at least one input byte; the bytes copied of the current
\* payload are always packet_len - items_to_copy, all earlier payloads being
\* whole; and while such invocations keep coming, a payload that was started
\* completes (state back to SEARCHING) unless the stream ends first.
C20_Progress ==
    /\ []((last.called /\ LastLen >= 1 /\ last.out_len >= 1) => LastConsumed >= 1)
    /\ [](Len(copied) % self.packet_len
             = (self.packet_len - self.items_to_copy) % self.packet_len)
    /\ (self.state = "COPYING") ~> (self.state = "SEARCHING" \/ nitems_read = StreamLen)

\* A payload of several bytes completed before the end of the stream.
C20_Witness ==
    /\ last.called
    /\ last.pre.state = "COPYING"
    /\ last.out_len >= 1
    /\ self.packet_len >= 2
    /\ self.state = "SEARCHING"
    /\ Len(copied) = self.packet_len
    /\ nitems_read < StreamLen

\* ------------------------------------------------------------------------
\* Construction with an arbitrary length argument: __init__ stores
\* packet_len_bytes as it is, so the object exists for zero and negative
\* lengths too.  (The output cursor is capped, since a block with a negative
\* length never leaves COPYING and keeps reporting produced items.)
CtorInit ==
    /\ stream \in [1..StreamLen -> Bytes]
    /\ tags \in {T \in SUBSET Tag : Cardinality(T) <= MaxTags}
    /\ \E p \in (0 - 1)..MaxPacketLen : self = PacketExtractor(p)
    /\ nitems_read = 0
    /\ nitems_written = 0
    /\ copied = <<>>
    /\ last = NoCall
    /\ link = LinkIdle
    /\ batch = BatchIdle

CtorWork == nitems_written < MaxWritten /\ Work

CtorSpec == CtorInit /\ [][CtorWork]_vars

\* C11: a PacketExtractor with packet_len <= 0 is never constructed, so
\* general_work is never invoked with packet_len <= 0.
C11_NonPositiveLengthRejected ==
    last.called => last.pre.packet_len >= 1

\* ========================================================================
\* The differential line code: digital.diff_encoder_bb(4) on TX
\* (src/Transmission.py) and digital.diff_decoder_bb(4) on RX (src/Receiver.py).

M == 4                \* the modulus both blocks are built with
MaxGroups == 4        \* longest item sequence put through the codec

Symbols == 0 .. (M - 1)

\* diff_encoder_bb: out[i] = (in[i] + last_out) % modulus; last_out = out[i]
diff_encoder_stateless(last_out, in) == in % M
diff_encoder(last_out, in) == (in + last_out) % M

\* The C++ expression `d % modulus` with int d and unsigned modulus: d is
\* converted to 32-bit unsigned first, so a negative d stands for 2^32 + d.
\* 2^32 mod m is computed from 2^16 to stay within the checker's integers.
TwoTo32Mod(m) == ((65536 % m) * (65536 % m)) % m
unsigned_mod(d, m) == IF d >= 0 THEN d % m ELSE (TwoTo32Mod(m) + (d % m)) % m

\* diff_decoder_bb: out[i] = (in[i] - in[i-1]) % modulus; in[-1] = 0.
diff_decoder_reversed(prev_in, in) == unsigned_mod(prev_in - in, M)
diff_decoder_absolute(prev_in, in) == unsigned_mod(in, M)
diff_decoder(prev_in, in) == unsigned_mod(in - prev_in, M)

\* The carrier loop may lock with any of the M phase rotations: every symbol
\* index decided by the receiver is the transmitted one plus a constant.
rotate(sym, r) == (sym + r) % M

\* A fresh pair of blocks (both registers 0) with the items to send.
CodecLink(items, r) ==
    [mode |-> "codec", groups |-> items, rot |-> r,
     enc_last |-> 0, sent |-> <<>>,
     dec_prev |-> 0, received |-> <<>>, decoded |-> <<>>]

SeqsUpTo(S, n) == UNION {[1..k -> S] : k \in 1..n}

CodecInit ==
    /\ \E g \in SeqsUpTo(Symbols, MaxGroups), r \in Symbols : link = CodecLink(g, r)
    /\ stream = [i \in 1..StreamLen |-> 0]
    /\ tags = {}
    /\ self = PacketExtractor(1)
    /\ nitems_read = 0
    /\ nitems_written = 0
    /\ copied = <<>>
    /\ last = NoCall
    /\ batch = BatchIdle

ExtractorIdle == UNCHANGED <<stream, tags, self, nitems_read, nitems_written, copied, last>>

\* The encoder processes the next input item.
Encode ==
    /\ link.mode \in {"codec", "chain"}
    /\ Len(link.sent) < Len(link.groups)
    /\ LET out == diff_encoder(link.enc_last, link.groups[Len(link.sent) + 1])
       IN link' = [link EXCEPT !.sent = Append(@, out), !.enc_last = out]
    /\ ExtractorIdle /\ UNCHANGED batch

\* The next transmitted symbol arrives, rotated, and the decoder processes it.
Decode ==
    /\ link.mode = "codec"
    /\ Len(link.received) < Len(link.sent)
    /\ LET in == rotate(link.sent[Len(link.received) + 1], link.rot)
       IN link' = [link EXCEPT !.received = Append(@, in),
                               !.decoded = Append(@, diff_decoder(link.dec_prev, in)),
                               !.dec_prev = in]
    /\ ExtractorIdle /\ UNCHANGED batch

CodecNext == Encode \/ Decode

CodecSpec == CodecInit /\ [][CodecNext]_vars

\* ------------------------------------------------------------------------
\* C12 (as stated): under every constant rotation every decoded group equals
\* the group that was encoded.
CodecRunning == link.mode = "codec"

C12_RoundTripEveryGroup ==
    CodecRunning =>
        \A i \in 1..Len(link.decoded) : link.decoded[i] = link.groups[i]

\* C12 (amended): every decoded group after the first equals the encoded group,
\* and so does the first when the rotation is 0.
C12_RoundTripAfterFirst ==
    CodecRunning =>
        \A i \in 1..Len(link.decoded) :
            (i >= 2 \/ link.rot = 0) => link.decoded[i] = link.groups[i]

\* A rotated sequence of non-zero groups was decoded to the end.
C12_Witness ==
    /\ CodecRunning
    /\ link.rot = 3
    /\ Len(link.groups) = MaxGroups
    /\ Len(link.decoded) = MaxGroups
    /\ \A i \in 1..MaxGroups : link.groups[i] # 0
    /\ \E i, j \in 1..MaxGroups : link.groups[i] # link.groups[j]

\* ------------------------------------------------------------------------
\* C13: from registers 0 the encoder output is the running sum of its input
\* mod M and the decoder output the difference of consecutive inputs mod M,
\* each register holding the latest symbol; [1,2,3,0] encodes to [1,3,2,2]
\* and [1,3,2,2] decodes to [1,2,3,0].
RECURSIVE SumTo(_, _)
SumTo(seq, i) == IF i = 0 THEN 0 ELSE seq[i] + SumTo(seq, i - 1)

ItemBefore(seq, i) == IF i = 1 THEN 0 ELSE seq[i - 1]
LatestOf(seq) == IF seq = <<>> THEN 0 ELSE seq[Len(seq)]

C13_RunningSumsAndDifferences ==
    CodecRunning =>
        /\ \A i \in 1..Len(link.sent) : link.sent[i] = SumTo(link.groups, i) % M
        /\ link.enc_last = LatestOf(link.sent)
        /\ \A i \in 1..Len(link.decoded) :
              /\ (link.decoded[i] - (link.received[i] - ItemBefore(link.received, i))) % M = 0
              /\ link.decoded[i] \in Symbols
        /\ link.dec_prev = LatestOf(link.received)
        /\ (link.groups = <<1, 2, 3, 0>> /\ Len(link.sent) = 4) =>
              link.sent = <<1, 3, 2, 2>>
        /\ (link.received = <<1, 3, 2, 2>>) => link.decoded = <<1, 2, 3, 0>>

\* Scenario C ran through both blocks.
C13_Witness ==
    /\ CodecRunning
    /\ link.groups = <<1, 2, 3, 0>>
    /\ link.rot = 0
    /\ link.sent = <<1, 3, 2, 2>>
    /\ link.received = <<1, 3, 2, 2>>
    /\ link.decoded = <<1, 2, 3, 0>>

\* ------------------------------------------------------------------------
\* C17: under a constant rotation r every decoded group but the first equals
\* the original, and the first decoded group is (original + r) mod M.
C17_OnlyFirstGroupOffByRotation ==
    CodecRunning =>
        \A i \in 1..Len(link.decoded) :
            link.decoded[i] =
                IF i = 1 THEN (link.groups[1] + link.rot) % M ELSE link.groups[i]

\* A rotation made the first decoded group wrong and left the others right.
C17_Witness ==
    /\ CodecRunning
    /\ link.rot # 0
    /\ Len(link.decoded) >= 3
    /\ link.decoded[1] # link.groups[1]
    /\ link.decoded[1] = (link.groups[1] + link.rot) % M
    /\ link.decoded[2] = link.groups[2]
    /\ link.decoded[3] = link.groups[3]

\* ========================================================================
\* The item chains as connected: PacketTX (file_source -> unpack_k_bits_bb(8)
\* -> diff_encoder_bb(4) -> chunks_to_symbols_bc) and PacketRX
\* (constellation_decoder_cb -> unpack_k_bits_bb(2) -> diff_decoder_bb(4) ->
\* correlate_access_code_tag_bb -> pack_k_bits_bb(8)).

MaxPayload == 1       \* longest payload file, in bytes
Byte == 0 .. 255

RECURSIVE Pow2(_)
Pow2(n) == IF n = 0 THEN 1 ELSE 2 * Pow2(n - 1)

RECURSIVE Flatten(_)
Flatten(seqs) == IF seqs = <<>> THEN <<>> ELSE Head(seqs) \o Flatten(Tail(seqs))

\* unpack_k_bits_bb(k): k items per input item, most significant bit first,
\* out[j] = (in >> (k - 1 - j)) & 1.
unpack_k_bits(k, items) ==
    Flatten([i \in 1..Len(items) |->
                [j \in 1..k |-> (items[i] \div Pow2(k - j)) % 2]])

\* pack_k_bits_bb(k): one output item per k input items, built most
\* significant bit first from the low bit of every input item.
RECURSIVE pack_value(_, _)
pack_value(k, items) ==
    IF k = 0 THEN 0
    ELSE 2 * pack_value(k - 1, SubSeq(items, 1, k - 1)) + (items[k] % 2)

pack_k_bits(k, items) ==
    [b \in 1..(Len(items) \div k) |-> pack_value(k, SubSeq(items, (b - 1) * k + 1, b * k))]

\* PacketTX and PacketRX freshly built around a payload file; groups holds the
\* items the TX chain feeds to the encoder, rx_symbols counts the symbol
\* indices the receiver has decided, rx_bytes is the output of the packer.
ChainLink(payload, r) ==
    [mode |-> "chain", payload |-> payload, groups |-> unpack_k_bits(8, payload),
     rot |-> r, enc_last |-> 0, sent |-> <<>>,
     rx_symbols |-> 0, dec_prev |-> 0, received |-> <<>>, decoded |-> <<>>,
     rx_bytes |-> <<>>]

ChainInit ==
    /\ \E payload \in SeqsUpTo(Byte, MaxPayload), r \in Symbols :
          link = ChainLink(payload, r)
    /\ stream = [i \in 1..StreamLen |-> 0]
    /\ tags = {}
    /\ self = PacketExtractor(1)
    /\ nitems_read = 0
    /\ nitems_written = 0
    /\ copied = <<>>
    /\ last = NoCall
    /\ batch = BatchIdle

\* The receiver decides the next symbol index; unpack_k_bits_bb(2) turns it
\* into two items and the decoder processes both.
DecodeWired ==
    /\ link.mode = "chain"
    /\ link.rx_symbols < Len(link.sent)
    /\ LET sym == rotate(link.sent[link.rx_symbols + 1], link.rot)
           in == unpack_k_bits(2, <<sym>>)
           out1 == diff_decoder(link.dec_prev, in[1])
           out2 == diff_decoder(in[1], in[2])
       IN link' = [link EXCEPT !.rx_symbols = @ + 1,
                               !.received = @ \o in,
                               !.decoded = @ \o <<out1, out2>>,
                               !.dec_prev = in[2]]
    /\ ExtractorIdle /\ UNCHANGED batch

\* correlate_access_code_tag_bb passes the items through; the packer emits
\* the next byte once eight more items are there.
Pack ==
    /\ link.mode = "chain"
    /\ Len(link.decoded) >= 8 * (Len(link.rx_bytes) + 1)
    /\ link' = [link EXCEPT !.rx_bytes =
                    SubSeq(pack_k_bits(8, link.decoded), 1, Len(link.rx_bytes) + 1)]
    /\ ExtractorIdle /\ UNCHANGED batch

ChainNext == Encode \/ DecodeWired \/ Pack

ChainSpec == ChainInit /\ [][ChainNext]_vars

ChainRunning == link.mode = "chain"

ChainDrained ==
    /\ ChainRunning
    /\ Len(link.sent) = Len(link.groups)
    /\ link.rx_symbols = Len(link.sent)
    /\ Len(link.rx_bytes) = Len(link.decoded) \div 8

\* ------------------------------------------------------------------------
\* C16: every item fed to the encoder and to the decoder is a whole 2-bit
\* group, i.e. the encoder is fed one item per 2 payload bits, the modulator
\* gets one symbol index per 2 payload bits, and the decoder is fed one item
\* per decided symbol index.
C16_WholeGroupsFed ==
    ChainRunning =>
        /\ 2 * Len(link.groups) = 8 * Len(link.payload)
        /\ 2 * Len(link.sent) <= 8 * Len(link.payload)
        /\ Len(link.received) = link.rx_symbols

\* ------------------------------------------------------------------------
\* C15: once the chains have processed the whole payload, the bytes out of
\* the packer are the payload bytes, apart from the first 2-bit group.
C15_PayloadRecovered ==
    ChainDrained =>
        /\ Len(link.rx_bytes) = Len(link.payload)
        /\ \A k \in 3..(8 * Len(link.payload)) :
              unpack_k_bits(8, link.rx_bytes)[k] = unpack_k_bits(8, link.payload)[k]

\* ========================================================================
\* Batch transmission: src/Batch_Transmission.py main, which runs the
\* transmitter script (src/Transmission.py main) once per packet file.

MaxFiles == 3         \* distinct file stems the input directory may hold

\* A directory entry: stem is the rank of the name in string order, ext says
\* whether the name ends with ".bin".
DirEntries == [stem : 1..MaxFiles, ext : {"bin", "txt"}]

\* [f for f in os.listdir(INPUT_DIR) if f.endswith(".bin")]
bin_files(listing) == {f \in listing : f.ext = "bin"}

\* sorted(...)
RECURSIVE sorted(_)
sorted(S) ==
    IF S = {} THEN <<>>
    ELSE LET first == CHOOSE f \in S : \A g \in S : f.stem <= g.stem
         IN <<first>> \o sorted(S \ {first})

\* Option names, character by character.
input_file_option == <<"-", "-", "i", "n", "p", "u", "t", "-", "f", "i", "l", "e">>
command_option == <<"-", "-", "i", "n", "p", "u", "t", "_", "f", "i", "l", "e">>

\* ["python3", FLOWGRAPH_PATH, f"--input_file={input_path}"]
command(f) == [option |-> command_option, value |-> f]

\* argparse accepts a long option given in full or as a prefix of its name.
parse_args(declared, argv) ==
    IF /\ Len(argv.option) > 2
       /\ Len(argv.option) <= Len(declared)
       /\ argv.option = SubSeq(declared, 1, Len(argv.option))
    THEN [ok |-> TRUE, input_file |-> argv.value]
    ELSE [ok |-> FALSE]

\* Transmission.py main: parse the arguments (a required option that is
\* missing ends the process with status 2), give up when the file does not
\* exist, otherwise run the flowgraph until the file has been sent.
tx_main(argv, existing) ==
    LET args == parse_args(input_file_option, argv)
    IN IF ~args.ok THEN [status |-> 2, transmitted |-> <<>>]
       ELSE IF args.input_file \notin existing THEN [status |-> 0, transmitted |-> <<>>]
       ELSE [status |-> 0, transmitted |-> <<args.input_file>>]

NoChild == [pc |-> "none"]

BatchStart(dir_exists, listing) ==
    [pc |-> "main", dir_exists |-> dir_exists, listing |-> listing,
     packet_files |-> <<>>, i |-> 0, child |-> NoChild,
     started |-> <<>>, exited |-> <<>>, transmitted |-> <<>>, complete |-> FALSE]

BatchInit ==
    /\ \E dir_exists \in BOOLEAN, listing \in SUBSET DirEntries :
          batch = BatchStart(dir_exists, IF dir_exists THEN listing ELSE {})
    /\ link = LinkIdle
    /\ stream = [i \in 1..StreamLen |-> 0]
    /\ tags = {}
    /\ self = PacketExtractor(1)
    /\ nitems_read = 0
    /\ nitems_written = 0
    /\ copied = <<>>
    /\ last = NoCall

BatchOnly == ExtractorIdle /\ UNCHANGED link

\* main up to the loop: directory check, listing, empty check.
BatchMain ==
    /\ batch.pc = "main"
    /\ LET packet_files == sorted(bin_files(batch.listing))
       IN batch' = IF ~batch.dir_exists \/ packet_files = <<>>
                   THEN [batch EXCEPT !.pc = "done"]
                   ELSE [batch EXCEPT !.pc = "loop", !.packet_files = packet_files]
    /\ BatchOnly

\* Loop body up to subprocess.run: the transmitter process is started.
Launch ==
    /\ batch.pc = "loop"
    /\ batch.i < Len(batch.packet_files)
    /\ LET filename == batch.packet_files[batch.i + 1]
       IN batch' = [batch EXCEPT !.pc = "run",
                                 !.child = [pc |-> "running", argv |-> command(filename)],
                                 !.started = Append(@, filename)]
    /\ BatchOnly

\* The transmitter process runs main to its end.
ChildMain ==
    /\ batch.child.pc = "running"
    /\ LET r == tx_main(batch.child.argv, batch.listing)
       IN batch' = [batch EXCEPT !.child = [pc |-> "exited", status |-> r.status],
                                 !.exited = Append(@, batch.packet_files[batch.i + 1]),
                                 !.transmitted = @ \o r.transmitted]
    /\ BatchOnly

\* subprocess.run returns (the status is not looked at); last file or not.
Reap ==
    /\ batch.pc = "run"
    /\ batch.child.pc = "exited"
    /\ batch' = [batch EXCEPT !.child = NoChild,
                              !.pc = IF batch.i < Len(batch.packet_files) - 1
                                     THEN "sleep" ELSE "loop",
                              !.i = IF batch.i < Len(batch.packet_files) - 1
                                    THEN @ ELSE @ + 1]
    /\ BatchOnly

\* time.sleep(PACKET_DELAY) returns, next iteration.
Sleep ==
    /\ batch.pc = "sleep"
    /\ batch' = [batch EXCEPT !.pc = "loop", !.i = @ + 1]
    /\ BatchOnly

\* The loop is over: "Batch transmission complete." is printed.
Complete ==
    /\ batch.pc = "loop"
    /\ batch.i = Len(batch.packet_files)
    /\ batch' = [batch EXCEPT !.pc = "done", !.complete = TRUE]
    /\ BatchOnly

BatchNext == BatchMain \/ Launch \/ ChildMain \/ Reap \/ Sleep \/ Complete

BatchSpec == BatchInit /\ [][BatchNext]_vars

BatchRunning == batch.pc # "idle"

\* The runs started so far are, in order, the first .bin files in name order.
BatchInOrder ==
    BatchRunning =>
        batch.started = SubSeq(sorted(bin_files(batch.listing)), 1, Len(batch.started))

\* Every run started before the latest one has terminated.
BatchOneAtATime ==
    BatchRunning =>
        /\ Len(batch.started) - Len(batch.exited) \in {0, 1}
        /\ batch.exited = SubSeq(batch.started, 1, Len(batch.exited))

\* Completion is reported only when every .bin file has been transmitted.
BatchCompleteMeansAllSent ==
    (BatchRunning /\ batch.complete) =>
        batch.transmitted = sorted(bin_files(batch.listing))

\* ------------------------------------------------------------------------
\* C14: the .bin files are transmitted in sorted name order, the run for a
\* file never starts before the run for the previous file has terminated,
\* and completion is reported only after every file has been transmitted.
C14_BatchSequencing ==
    /\ BatchInOrder
    /\ BatchOneAtATime
    /\ BatchCompleteMeansAllSent

=============================================================================
